---- MODULE Spec2Model ----
(***************************************************************************)
(* The search handler of websurfx (src/server/routes.rs, `search`): page   *)
(* normalisation and cache-key construction, the cache hit/miss branch,    *)
(* engine selection from the appCookie, aggregation, enrichment, cache     *)
(* population and rendering.                                               *)
(*                                                                         *)
(* Strings are sequences of one-character strings.  Option<T> is a         *)
(* sequence of length at most one: <<>> is None and <<v>> is Some(v).      *)
(***************************************************************************)
EXTENDS Integers, Sequences, FiniteSets, TLC

\* ------------------------------------------------------------------ bounds

\* Longest raw (still percent-encoded) value of the `q` parameter explored
\* by the key-derivation specification.
MaxRawLen == 4

\* Largest declared `page` parameter.
MaxPage == 2

\* Longest engine list carried by an appCookie.
MaxEngines == 1

\* ----------------------------------------------------------------- options

None == <<>>

Some(v) == <<v>>

IsSome(o) == Len(o) = 1

Unwrap(o) == o[1]

\* ----------------------------------------------------------------- strings

\* Characters of a raw `q` value as the client sends it: a letter, the form
\* encoding of a space, and what percent escapes are made of.
RawChar == {"x", "+", "%", "2", "B"}

HexDigit == {"2", "B"}

\* The character U+FFFD that lossy UTF-8 decoding puts for an invalid byte.
Replacement == "U+FFFD"

\* All sequences over S of length at most n.
SeqUpTo(S, n) == UNION {[1..k -> S] : k \in 0..n}

\* The byte a percent escape %h1h2 stands for, as the character it decodes
\* to: %22 is a double quote, %2B a plus sign; %B2 and %BB are bytes that are
\* no valid UTF-8 on their own and decode lossily.
EscapedChar(h1, h2) ==
  IF h1 = "2" /\ h2 = "2" THEN "\""
  ELSE IF h1 = "2" /\ h2 = "B" THEN "+"
  ELSE Replacement

\* form_urlencoded: every '+' of the raw value is a space.
replace_plus(s) == [i \in 1..Len(s) |-> IF s[i] = "+" THEN " " ELSE s[i]]

RECURSIVE percent_decode(_)
\* percent_encoding::percent_decode: %XX with two hex digits is one byte,
\* any other '%' stays as it is.
percent_decode(s) ==
  IF s = <<>> THEN <<>>
  ELSE IF Head(s) = "%" /\ Len(s) >= 3 /\ s[2] \in HexDigit /\ s[3] \in HexDigit
       THEN <<EscapedChar(s[2], s[3])>> \o percent_decode(SubSeq(s, 4, Len(s)))
       ELSE <<Head(s)>> \o percent_decode(Tail(s))

\* web::Query::<SearchParams>::from_query on the `q` parameter: the decoded
\* value of Option<String>.
from_query_q(rawq) ==
  IF IsSome(rawq) THEN Some(percent_decode(replace_plus(Unwrap(rawq)))) ELSE None

\* str::trim().is_empty(): nothing but white space.
trim_is_empty(s) == \A i \in 1..Len(s) : s[i] = " "

Digits == <<"0", "1", "2", "3", "4", "5", "6", "7", "8", "9">>

RECURSIVE u32_to_string(_)
\* Display for u32, as format!("{}") writes a page number.
u32_to_string(n) ==
  IF n < 10 THEN <<Digits[n + 1]>>
  ELSE u32_to_string(n \div 10) \o <<Digits[(n % 10) + 1]>>

\* ------------------------------------------------------------ configuration

\* config.binding_ip_addr and config.port, as in the handler's example.
binding_ip_addr == <<"1", "2", "7", ".", "0", ".", "0", ".", "1">>

port == <<"8", "0", "8", "0">>

\* config.upstream_search_engines
upstream_search_engines == <<"duckduckgo", "searx">>

\* --------------------------------------------------------- page and key

\* req.uri() of a request to /search: the path and the query string exactly
\* as sent.  The query string holds the declared parameters, q first.
req_uri(rawq, page) ==
  LET qpart == IF IsSome(rawq) THEN <<"q", "=">> \o Unwrap(rawq) ELSE <<>>
      ppart == IF IsSome(page)
               THEN <<"p", "a", "g", "e", "=">> \o u32_to_string(Unwrap(page))
               ELSE <<>>
      amp   == IF qpart # <<>> /\ ppart # <<>> THEN <<"&">> ELSE <<>>
      qs    == qpart \o amp \o ppart
  IN  <<"/", "s", "e", "a", "r", "c", "h">> \o (IF qs = <<>> THEN <<>> ELSE <<"?">> \o qs)

HttpPrefix == <<"h", "t", "t", "p", ":", "/", "/">> \o binding_ip_addr \o <<":">> \o port

PageSuffix(n) == <<"&", "p", "a", "g", "e", "=">> \o u32_to_string(n)

\* format!("http://{}:{}/search?q={}&page={}", ip, port, query, n)
FormatQueryUrl(query, n) ==
  HttpPrefix \o <<"/", "s", "e", "a", "r", "c", "h", "?", "q", "=">> \o query \o PageSuffix(n)

\* format!("http://{}:{}{}&page={}", ip, port, req.uri(), 1)
FormatUriUrl(uri) == HttpPrefix \o uri \o PageSuffix(1)

\* The value of `page` without the clamp of page numbers below 1.
EffectivePageDeclared(page) ==
  IF IsSome(page) THEN Unwrap(page) ELSE 1

\* The value of `page` after the match on params.page.
EffectivePage(page) ==
  IF IsSome(page) /\ Unwrap(page) > 1 THEN Unwrap(page) ELSE 1

\* The value of `page_url` after the match on params.page: the cache key.
PageUrl(rawq, query, page) ==
  IF IsSome(page)
  THEN IF Unwrap(page) <= 1
       THEN FormatQueryUrl(query, 1)
       ELSE FormatQueryUrl(query, Unwrap(page))
  ELSE FormatUriUrl(req_uri(rawq, page))

\* Declared pages: absent, or 0..MaxPage.
Pages == {None} \cup {Some(p) : p \in 0..MaxPage}

\* ------------------------------------------------------------- appCookie

\* Engine names a client can select in the UI.
EngineNames == {"searx"}

\* The text of an appCookie value: either no JSON at all, or a JSON object,
\* written as the sequence of its members <<name, type, value>>.
NotJson == [json |-> FALSE, members |-> <<>>]

JsonObject(members) == [json |-> TRUE, members |-> members]

ThemeMember == <<"theme", "string", <<"simple">>>>

ColorschemeMember == <<"colorscheme", "string", <<"catppuccin-mocha">>>>

EnginesMember(engines) == <<"engines", "array", engines>>

\* A cookie as the settings page writes it.
CookieOf(engines) ==
  JsonObject(<<ThemeMember, ColorschemeMember, EnginesMember(engines)>>)

\* A JSON object that lacks the `engines` member.
CookieWithoutEngines == JsonObject(<<ThemeMember, ColorschemeMember>>)

CookiePayloads ==
  {NotJson, CookieWithoutEngines} \cup {CookieOf(e) : e \in SeqUpTo(EngineNames, MaxEngines)}

\* req.cookie("appCookie")
Cookies == {None} \cup {Some(c) : c \in CookiePayloads}

HasMember(payload, name, type) ==
  \E i \in 1..Len(payload.members) :
     payload.members[i][1] = name /\ payload.members[i][2] = type

MemberValue(payload, name) ==
  LET i == CHOOSE j \in 1..Len(payload.members) : payload.members[j][1] = name
  IN  payload.members[i][3]

\* serde_json::from_str::<Cookie>: Ok exactly when the text is a JSON object
\* with the three members of struct Cookie, each of its type.
CookieDecodes(payload) ==
  /\ payload.json
  /\ HasMember(payload, "theme", "string")
  /\ HasMember(payload, "colorscheme", "string")
  /\ HasMember(payload, "engines", "array")

\* cookie_value.engines of the decoded Cookie.
CookieEngines(payload) == MemberValue(payload, "engines")

\* ---------------------------------------------------------- SearchResults

\* config.style
ConfigStyle == [theme |-> "simple", colorscheme |-> "catppuccin-mocha"]

\* Style of a SearchResults that add_style has not been called on.
NoStyle == [theme |-> "", colorscheme |-> ""]

\* Result lists the aggregator can return for a page.
AggregatedLists == {<<>>, <<"result">>}

\* SearchResults::new(results, page_query)
NewSearchResults(results, q) ==
  [results |-> results, page_query |-> q, style |-> NoStyle, empty_result_set |-> FALSE]

\* results_json.add_style(config.style.clone())
add_style(rs, style) == [rs EXCEPT !.style = style]

is_empty_result_set(rs) == rs.results = <<>>

set_empty_result_set(rs) == [rs EXCEPT !.empty_result_set = TRUE]

\* Lines 156-162: the style is attached and the empty flag computed.
Enrich(rs) ==
  LET styled == add_style(rs, ConfigStyle)
  IN  IF is_empty_result_set(styled) THEN set_empty_result_set(styled) ELSE styled

BoolText(b) == IF b THEN "true" ELSE "false"

\* serde_json::to_string(&results_json): the JSON text, as the sequence of
\* its members <<name, value>>.
to_string(rs) ==
  << <<"results", rs.results>>,
     <<"pageQuery", rs.page_query>>,
     <<"style", rs.style>>,
     <<"emptyResultSet", BoolText(rs.empty_result_set)>> >>

\* A cached text that is no SearchResults.
Garbage == << <<"garbage", <<>>>> >>

\* Whether serde_json::from_str::<SearchResults> accepts the text.
SearchResultsDecode(text) ==
  /\ Len(text) = 4
  /\ text[1][1] = "results"
  /\ text[2][1] = "pageQuery"
  /\ text[3][1] = "style"
  /\ text[4][1] = "emptyResultSet"
  /\ text[4][2] \in {"true", "false"}

\* serde_json::from_str::<SearchResults>(&results_json)
from_str(text) ==
  [results |-> text[1][2], page_query |-> text[2][2], style |-> text[3][2],
   empty_result_set |-> (text[4][2] = "true")]

\* hbs.render("search", &results): the page made from the results.
RenderPage(rs) == <<"search", rs>>

\* ------------------------------------------------------------------ state

\* Requests in flight are told apart by the worker that serves them.
Reqs == {"r1", "r2"}

VARIABLES
  redisUp,       \* whether the Redis server answers
  cache,         \* the Redis store: a set of <<key, text>>, one text per key
  pc,            \* where each request's handler stands
  rawq,          \* the request: raw value of `q` (Option)
  page_param,    \* the request: declared `page` (Option; -1 is no u32)
  cookie,        \* the request: value of the appCookie (Option)
  page,          \* local `page`
  page_url,      \* local `page_url`
  results_json,  \* local `results_json` of the Err(_) arm (Option)
  response,      \* what the handler returned (Option)
  calls,         \* history: the collaborator calls the request has made
  populated,     \* history: <<key, results>> of the stored entries a request has
                 \* written, with the enriched results the writer held
  kq,            \* key derivation: the raw query under study
  derived        \* key derivation: <<declared page, effective page, key, query>>

vars == <<redisUp, cache, pc, rawq, page_param, cookie, page, page_url,
          results_json, response, calls, populated, kq, derived>>

reqVars == <<pc, rawq, page_param, cookie, page, page_url, results_json, response, calls>>

keyVars == <<kq, derived>>

\* A `page` parameter that does not deserialize into Option<u32>.
InvalidPage == Some(-1)

PageParams == Pages \cup {InvalidPage}

\* Raw `q` values of the requests served: missing, empty, blank, a word.
Queries == {None, Some(<<>>), Some(<<"+">>), Some(<<"x">>)}

\* The key of the first page of the word.
FirstPageKey == PageUrl(Some(<<"x">>), <<"x">>, Some(1))

\* One collaborator call in a request's history.
Call(op, ok, key, engines, pg) ==
  [op |-> op, ok |-> ok, key |-> key, engines |-> engines, page |-> pg]

\* The keys whose stored entry a request has written.
PopulatedKeys == {w[1] : w \in populated}

\* The enriched results the writer of the entry under `key` held (Option).
WrittenUnder(key) ==
  IF key \in PopulatedKeys
  THEN Some((CHOOSE w \in populated : w[1] = key)[2])
  ELSE None

\* The history of a cache read also tells whether the store then held, under
\* the request's key, an entry that an earlier request had written (the cache
\* was warm for the request), whether the store answered, the text read and
\* the results the writer of the entry held.
GetCall(ok, key, warm, up, text, wrote) ==
  [op |-> "get", ok |-> ok, key |-> key, engines |-> <<>>, page |-> 0,
   warm |-> warm, up |-> up, text |-> text, wrote |-> wrote]

\* HttpResponse::Found().insert_header(("location", "/")).finish()
Redirect == [status |-> "302", location |-> <<"/">>, body |-> None, error |-> ""]

\* HttpResponse::Ok().body(page_content)
OkResponse(body) == [status |-> "200", location |-> <<>>, body |-> Some(body), error |-> ""]

\* Err(e) returned by the handler: the request fails at `stage`.
Failed(stage) == [status |-> "error", location |-> <<>>, body |-> None, error |-> stage]

\* redis: the text stored under a key.
Stored(key) == {kv[2] : kv \in {e \in cache : e[1] = key}}

\* redis SET
Store(key, text) == {e \in cache : e[1] # key} \cup {<<key, text>>}

\* RedisCache::new(url): the connection is made, or the call fails.
RedisCacheNew == redisUp

\* redis_cache.cached_results_json(&key): Ok(text) when the store answers and
\* holds the key, an Err otherwise (None here).
cached_results_json(key) ==
  IF redisUp /\ Stored(key) # {}
  THEN Some(CHOOSE t \in Stored(key) : TRUE)
  ELSE None

\* redis_cache.cache_results(text, &key): Ok when the store answers.
cache_results_ok == redisUp

InitRequests ==
  /\ pc = [r \in Reqs |-> "idle"]
  /\ rawq = [r \in Reqs |-> None]
  /\ page_param = [r \in Reqs |-> None]
  /\ cookie = [r \in Reqs |-> None]
  /\ page = [r \in Reqs |-> 0]
  /\ page_url = [r \in Reqs |-> <<>>]
  /\ results_json = [r \in Reqs |-> None]
  /\ response = [r \in Reqs |-> None]
  /\ calls = [r \in Reqs |-> <<>>]
  /\ populated = {}

\* The server starts with Redis up or down, and with a store that is empty or
\* holds a text left by something else than this handler.
InitHandler ==
  /\ redisUp \in BOOLEAN
  /\ cache \in {{}, {<<FirstPageKey, Garbage>>}}
  /\ InitRequests

Init ==
  /\ InitHandler
  /\ kq = <<>>
  /\ derived = {}

\* The handler returns `resp`; `log` is the history up to the return.
Return(r, resp, log) ==
  /\ pc' = [pc EXCEPT ![r] = "done"]
  /\ response' = [response EXCEPT ![r] = Some(resp)]
  /\ results_json' = [results_json EXCEPT ![r] = None]
  /\ calls' = [calls EXCEPT ![r] = log]

\* Lines 89-132.  A request arrives: the query string is deserialized, the
\* Redis connection opened, and a missing or blank query redirected; any
\* other query gets its page and its cache key.
BeginWith(r, Q, P, C) ==
  /\ pc[r] = "idle"
  /\ \E q \in Q, p \in P, ck \in C :
       /\ rawq' = [rawq EXCEPT ![r] = q]
       /\ page_param' = [page_param EXCEPT ![r] = p]
       /\ cookie' = [cookie EXCEPT ![r] = ck]
       /\ IF p = InvalidPage
          THEN \* from_query(..)? fails
               /\ Return(r, Failed("query"), <<>>)
               /\ UNCHANGED <<page, page_url>>
          ELSE IF ~RedisCacheNew
          THEN \* RedisCache::new(..)? fails
               /\ Return(r, Failed("redis-connect"), <<Call("connect", FALSE, <<>>, <<>>, 0)>>)
               /\ UNCHANGED <<page, page_url>>
          ELSE LET query == from_query_q(q)
                   log   == <<Call("connect", TRUE, <<>>, <<>>, 0)>>
               IN  IF ~IsSome(query) \/ trim_is_empty(Unwrap(query))
                   THEN /\ Return(r, Redirect, log)
                        /\ UNCHANGED <<page, page_url>>
                   ELSE /\ page' = [page EXCEPT ![r] = EffectivePage(p)]
                        /\ page_url' = [page_url EXCEPT ![r] = PageUrl(q, Unwrap(query), p)]
                        /\ pc' = [pc EXCEPT ![r] = "get"]
                        /\ response' = [response EXCEPT ![r] = None]
                        /\ results_json' = [results_json EXCEPT ![r] = None]
                        /\ calls' = [calls EXCEPT ![r] = log]
  /\ UNCHANGED <<redisUp, cache, populated, keyVars>>

Begin(r) == BeginWith(r, Queries, PageParams, Cookies)

\* The decoded query of a request past its parameter check.
Query(r) == Unwrap(from_query_q(rawq[r]))

\* CacheGet with the Ok arm lost: every read leads into the miss arm.
CacheGetAlwaysMiss(r) ==
  /\ pc[r] = "get"
  /\ LET key   == page_url[r]
         warm  == key \in PopulatedKeys
         cached_results == cached_results_json(key)
     IN  calls' = [calls EXCEPT ![r] = Append(@, GetCall(IsSome(cached_results), key, warm,
                                                         redisUp, cached_results,
                                                         WrittenUnder(key)))]
  /\ pc' = [pc EXCEPT ![r] = "miss"]
  /\ UNCHANGED <<redisUp, cache, rawq, page_param, cookie, page, page_url, populated,
                 response, results_json, keyVars>>

\* An Ok arm that attaches the style and computes the empty flag again on
\* the deserialized results before rendering them.
ServeHitEnriches(r, text, log) ==
  LET key == page_url[r]
  IN  IF ~SearchResultsDecode(text)
      THEN Return(r, Failed("deserialize"),
                  Append(log, Call("from_str", FALSE, key, <<>>, 0)))
      ELSE LET log2 == Append(Append(log, Call("from_str", TRUE, key, <<>>, 0)),
                              Call("enrich", TRUE, key, <<>>, 0))
           IN  \E rendered \in BOOLEAN :
                 IF rendered
                 THEN Return(r, OkResponse(RenderPage(Enrich(from_str(text)))),
                             Append(log2, Call("render", TRUE, key, <<>>, 0)))
                 ELSE Return(r, Failed("render"),
                             Append(log2, Call("render", FALSE, key, <<>>, 0)))

\* An Ok arm that treats a text it cannot deserialize as a miss.
ServeHitFallsBack(r, text, log) ==
  LET key == page_url[r]
  IN  IF ~SearchResultsDecode(text)
      THEN /\ pc' = [pc EXCEPT ![r] = "miss"]
           /\ calls' = [calls EXCEPT ![r] =
                          Append(log, Call("from_str", FALSE, key, <<>>, 0))]
           /\ UNCHANGED <<response, results_json>>
      ELSE LET log2 == Append(log, Call("from_str", TRUE, key, <<>>, 0))
           IN  \E rendered \in BOOLEAN :
                 IF rendered
                 THEN Return(r, OkResponse(RenderPage(from_str(text))),
                             Append(log2, Call("render", TRUE, key, <<>>, 0)))
                 ELSE Return(r, Failed("render"),
                             Append(log2, Call("render", FALSE, key, <<>>, 0)))

\* An Ok arm that decodes the cookie before it serves the cached text.
ServeHitDecodesCookie(r, text, log) ==
  LET key == page_url[r]
  IN  IF IsSome(cookie[r]) /\ ~CookieDecodes(Unwrap(cookie[r]))
      THEN Return(r, Failed("cookie"), log)
      ELSE IF ~SearchResultsDecode(text)
      THEN Return(r, Failed("deserialize"),
                  Append(log, Call("from_str", FALSE, key, <<>>, 0)))
      ELSE LET log2 == Append(log, Call("from_str", TRUE, key, <<>>, 0))
           IN  \E rendered \in BOOLEAN :
                 IF rendered
                 THEN Return(r, OkResponse(RenderPage(from_str(text))),
                             Append(log2, Call("render", TRUE, key, <<>>, 0)))
                 ELSE Return(r, Failed("render"),
                             Append(log2, Call("render", FALSE, key, <<>>, 0)))

\* Lines 139-143, the Ok(results_json) arm: the text read is deserialized
\* and rendered, and the handler returns.
ServeHit(r, text, log) ==
  LET key == page_url[r]
  IN  IF ~SearchResultsDecode(text)
      THEN Return(r, Failed("deserialize"),
                  Append(log, Call("from_str", FALSE, key, <<>>, 0)))
      ELSE LET log2 == Append(log, Call("from_str", TRUE, key, <<>>, 0))
           IN  \E rendered \in BOOLEAN :
                 IF rendered
                 THEN Return(r, OkResponse(RenderPage(from_str(text))),
                             Append(log2, Call("render", TRUE, key, <<>>, 0)))
                 ELSE Return(r, Failed("render"),
                             Append(log2, Call("render", FALSE, key, <<>>, 0)))

\* Lines 135-143.  The cache is read.  A text found is deserialized and
\* rendered, and the handler returns; any Err(_) leads into the miss arm.
CacheGet(r) ==
  /\ pc[r] = "get"
  /\ LET key     == page_url[r]
         cached_results == cached_results_json(key)
         found   == IsSome(cached_results)
         warm    == key \in PopulatedKeys
         log     == Append(calls[r], GetCall(found, key, warm, redisUp, cached_results,
                                             WrittenUnder(key)))
     IN  IF found
         THEN ServeHit(r, Unwrap(cached_results), log)
         ELSE /\ pc' = [pc EXCEPT ![r] = "miss"]
              /\ calls' = [calls EXCEPT ![r] = log]
              /\ UNCHANGED <<response, results_json>>
  /\ UNCHANGED <<redisUp, cache, rawq, page_param, cookie, page, page_url, populated, keyVars>>

\* SelectEngines with a cookie that does not decode replaced by the defaults.
SelectEnginesFallback(ck) ==
  IF IsSome(ck) /\ CookieDecodes(Unwrap(ck))
  THEN [ok |-> TRUE, engines |-> CookieEngines(Unwrap(ck))]
  ELSE [ok |-> TRUE, engines |-> upstream_search_engines]

\* SelectEngines with the decoded cookie's engines dropped for the defaults.
SelectEnginesDefaultsOnly(ck) ==
  IF IsSome(ck) /\ ~CookieDecodes(Unwrap(ck))
  THEN [ok |-> FALSE, engines |-> <<>>]
  ELSE [ok |-> TRUE, engines |-> upstream_search_engines]

\* Lines 149-155, the match on req.cookie("appCookie"): the engines the
\* aggregator is called with, or the failure to decode the cookie.
SelectEngines(ck) ==
  IF IsSome(ck)
  THEN IF CookieDecodes(Unwrap(ck))
       THEN [ok |-> TRUE, engines |-> CookieEngines(Unwrap(ck))]
       ELSE [ok |-> FALSE, engines |-> <<>>]
  ELSE [ok |-> TRUE, engines |-> upstream_search_engines]

\* Lines 149-162.  The miss arm: the engines are selected and the aggregator
\* called with them; its results are enriched.
Aggregate(r) ==
  /\ pc[r] = "miss"
  /\ LET sel == SelectEngines(cookie[r])
         log == Append(calls[r], Call("select", sel.ok, page_url[r], sel.engines, page[r]))
     IN  IF ~sel.ok
         THEN Return(r, Failed("cookie"), log)
         ELSE \E out \in {None} \cup {Some(l) : l \in AggregatedLists} :
                LET log2 == Append(log, Call("aggregate", IsSome(out), page_url[r],
                                             sel.engines, page[r]))
                IN  IF ~IsSome(out)
                    THEN Return(r, Failed("aggregate"), log2)
                    ELSE /\ results_json' =
                              [results_json EXCEPT
                                 ![r] = Some(Enrich(NewSearchResults(Unwrap(out), Query(r))))]
                         /\ calls' = [calls EXCEPT
                                        ![r] = Append(log2, Call("enrich", TRUE, page_url[r],
                                                                 <<>>, page[r]))]
                         /\ pc' = [pc EXCEPT ![r] = "set"]
                         /\ UNCHANGED response
  /\ UNCHANGED <<redisUp, cache, rawq, page_param, cookie, page, page_url, populated, keyVars>>

\* CacheSet with the `?` lost: a failed write is ignored and the results are
\* rendered all the same.
CacheSetBestEffort(r) ==
  /\ pc[r] = "set"
  /\ LET key  == page_url[r]
         text == to_string(Unwrap(results_json[r]))
     IN  /\ IF cache_results_ok
            THEN /\ cache' = Store(key, text)
                 /\ populated' = {w \in populated : w[1] # key}
                                \cup {<<key, Unwrap(results_json[r])>>}
            ELSE UNCHANGED <<cache, populated>>
         /\ calls' = [calls EXCEPT ![r] = Append(@, Call("set", cache_results_ok, key, <<>>, 0))]
  /\ pc' = [pc EXCEPT ![r] = "render"]
  /\ UNCHANGED <<redisUp, rawq, page_param, cookie, page, page_url, response,
                 results_json, keyVars>>

\* A write that empties the store before it stores the entry.
CacheSetFlushes(r) ==
  /\ pc[r] = "set"
  /\ LET key  == page_url[r]
         text == to_string(Unwrap(results_json[r]))
     IN  IF cache_results_ok
         THEN /\ cache' = {<<key, text>>}
              /\ populated' = {<<key, Unwrap(results_json[r])>>}
              /\ pc' = [pc EXCEPT ![r] = "render"]
              /\ calls' = [calls EXCEPT ![r] = Append(@, Call("set", TRUE, key, <<>>, 0))]
              /\ UNCHANGED <<response, results_json>>
         ELSE /\ Return(r, Failed("redis-set"),
                        Append(calls[r], Call("set", FALSE, key, <<>>, 0)))
              /\ UNCHANGED <<cache, populated>>
  /\ UNCHANGED <<redisUp, rawq, page_param, cookie, page, page_url, keyVars>>

\* A write of the text serialized before the style was attached.
CacheSetBeforeStyle(r) ==
  /\ pc[r] = "set"
  /\ LET key  == page_url[r]
         text == to_string(add_style(Unwrap(results_json[r]), NoStyle))
     IN  IF cache_results_ok
         THEN /\ cache' = Store(key, text)
              /\ populated' = {w \in populated : w[1] # key}
                                \cup {<<key, Unwrap(results_json[r])>>}
              /\ pc' = [pc EXCEPT ![r] = "render"]
              /\ calls' = [calls EXCEPT ![r] = Append(@, Call("set", TRUE, key, <<>>, 0))]
              /\ UNCHANGED <<response, results_json>>
         ELSE /\ Return(r, Failed("redis-set"),
                        Append(calls[r], Call("set", FALSE, key, <<>>, 0)))
              /\ UNCHANGED <<cache, populated>>
  /\ UNCHANGED <<redisUp, rawq, page_param, cookie, page, page_url, keyVars>>

\* A write that keeps an entry already stored under the key (set if absent).
CacheSetIfAbsent(r) ==
  /\ pc[r] = "set"
  /\ LET key  == page_url[r]
         text == to_string(Unwrap(results_json[r]))
     IN  IF cache_results_ok
         THEN /\ IF Stored(key) = {}
                 THEN /\ cache' = Store(key, text)
                      /\ populated' = {w \in populated : w[1] # key}
                                        \cup {<<key, Unwrap(results_json[r])>>}
                 ELSE UNCHANGED <<cache, populated>>
              /\ pc' = [pc EXCEPT ![r] = "render"]
              /\ calls' = [calls EXCEPT ![r] = Append(@, Call("set", TRUE, key, <<>>, 0))]
              /\ UNCHANGED <<response, results_json>>
         ELSE /\ Return(r, Failed("redis-set"),
                        Append(calls[r], Call("set", FALSE, key, <<>>, 0)))
              /\ UNCHANGED <<cache, populated>>
  /\ UNCHANGED <<redisUp, rawq, page_param, cookie, page, page_url, keyVars>>

\* Lines 163-164.  The serialized results are written under the key; a
\* failed write is returned as the handler's error.
CacheSet(r) ==
  /\ pc[r] = "set"
  /\ LET key  == page_url[r]
         text == to_string(Unwrap(results_json[r]))
     IN  IF cache_results_ok
         THEN /\ cache' = Store(key, text)
              /\ populated' = {w \in populated : w[1] # key}
                                \cup {<<key, Unwrap(results_json[r])>>}
              /\ pc' = [pc EXCEPT ![r] = "render"]
              /\ calls' = [calls EXCEPT ![r] = Append(@, Call("set", TRUE, key, <<>>, 0))]
              /\ UNCHANGED <<response, results_json>>
         ELSE /\ Return(r, Failed("redis-set"),
                        Append(calls[r], Call("set", FALSE, key, <<>>, 0)))
              /\ UNCHANGED <<cache, populated>>
  /\ UNCHANGED <<redisUp, rawq, page_param, cookie, page, page_url, keyVars>>

\* A render that is tried a second time when it fails.
RenderRetriesOnce(r) ==
  /\ pc[r] = "render"
  /\ \E rendered \in BOOLEAN :
       IF rendered
       THEN Return(r, OkResponse(RenderPage(Unwrap(results_json[r]))),
                   Append(calls[r], Call("render", TRUE, page_url[r], <<>>, 0)))
       ELSE IF (\E i \in 1..Len(calls[r]) : calls[r][i].op = "render")
       THEN Return(r, Failed("render"),
                   Append(calls[r], Call("render", FALSE, page_url[r], <<>>, 0)))
       ELSE /\ calls' = [calls EXCEPT
                          ![r] = Append(@, Call("render", FALSE, page_url[r], <<>>, 0))]
            /\ UNCHANGED <<pc, response, results_json>>
  /\ UNCHANGED <<redisUp, cache, rawq, page_param, cookie, page, page_url, populated, keyVars>>

\* Lines 165-166.  The results are rendered and returned.
Render(r) ==
  /\ pc[r] = "render"
  /\ \E rendered \in BOOLEAN :
       IF rendered
       THEN Return(r, OkResponse(RenderPage(Unwrap(results_json[r]))),
                   Append(calls[r], Call("render", TRUE, page_url[r], <<>>, 0)))
       ELSE Return(r, Failed("render"),
                   Append(calls[r], Call("render", FALSE, page_url[r], <<>>, 0)))
  /\ UNCHANGED <<redisUp, cache, rawq, page_param, cookie, page, page_url, populated, keyVars>>

\* The response is out and the worker takes the next request: nothing of the
\* finished request is kept.
Finish(r) ==
  /\ pc[r] = "done"
  /\ pc' = [pc EXCEPT ![r] = "idle"]
  /\ rawq' = [rawq EXCEPT ![r] = None]
  /\ page_param' = [page_param EXCEPT ![r] = None]
  /\ cookie' = [cookie EXCEPT ![r] = None]
  /\ page' = [page EXCEPT ![r] = 0]
  /\ page_url' = [page_url EXCEPT ![r] = <<>>]
  /\ results_json' = [results_json EXCEPT ![r] = None]
  /\ response' = [response EXCEPT ![r] = None]
  /\ calls' = [calls EXCEPT ![r] = <<>>]
  /\ UNCHANGED <<redisUp, cache, populated, keyVars>>

\* The Redis server stops answering.
RedisFails ==
  /\ redisUp
  /\ redisUp' = FALSE
  /\ UNCHANGED <<cache, reqVars, populated, keyVars>>

\* The Redis server answers again.
RedisRecovers ==
  /\ ~redisUp
  /\ redisUp' = TRUE
  /\ UNCHANGED <<cache, reqVars, populated, keyVars>>

\* The store drops an entry (its expiry is the store's own business).
Expire ==
  /\ \E e \in cache :
       /\ cache' = cache \ {e}
       /\ populated' = {w \in populated : w[1] # e[1]}
  /\ UNCHANGED <<redisUp, reqVars, keyVars>>

\* The worker whose requests are followed one after the other.
Workers == {"r1"}

Next ==
  \/ \E r \in Workers : Begin(r)
  \/ \E r \in Workers : CacheGet(r)
  \/ \E r \in Workers : Aggregate(r)
  \/ \E r \in Workers : CacheSet(r)
  \/ \E r \in Workers : Render(r)
  \/ \E r \in Workers : Finish(r)
  \/ RedisFails
  \/ RedisRecovers
  \/ Expire

Spec == Init /\ [][Next]_vars

\* ------------------------------------------------- two requests at once

\* The handler is a future that the server's runtime polls until it has
\* returned: when every call it awaits returns, each of its steps that can
\* be taken is taken.
Fairness ==
  \A r \in Workers :
     /\ WF_vars(CacheGet(r))
     /\ WF_vars(Aggregate(r))
     /\ WF_vars(CacheSet(r))
     /\ WF_vars(Render(r))

SpecLive == Init /\ [][Next]_vars /\ Fairness

\* Two workers serve requests for one query at the same time.
NextConc ==
  \/ \E r \in Reqs : BeginWith(r, {Some(<<"x">>)}, {None, Some(1)}, {None})
  \/ \E r \in Reqs : CacheGet(r)
  \/ \E r \in Reqs : Aggregate(r)
  \/ \E r \in Reqs : CacheSet(r)
  \/ \E r \in Reqs : Render(r)
  \/ \E r \in Reqs : Finish(r)
  \/ RedisFails
  \/ RedisRecovers
  \/ Expire

SpecConc == Init /\ [][NextConc]_vars

\* ------------------------------------------------------- key derivation

\* The raw `q` values whose keys are derived.
RawQueries == SeqUpTo(RawChar, MaxRawLen)

InitKey ==
  /\ redisUp = TRUE
  /\ cache = {}
  /\ InitRequests
  /\ kq \in RawQueries
  /\ derived = {}

\* Lines 95 and 104-132 on the request /search?q=<raw>[&page=<p>]: the
\* declared page, the effective page, the cache key and the query.
KeyOf(raw, p) ==
  LET query == Unwrap(from_query_q(Some(raw)))
  IN  <<p, EffectivePage(p), PageUrl(Some(raw), query, p), query>>

\* Lines 95 and 104-132 on the request /search?q=<kq>[&page=<p>]: the
\* effective page and the cache key of a query that is not blank.
DeriveKey ==
  /\ ~trim_is_empty(Unwrap(from_query_q(Some(kq))))
  /\ \E p \in Pages : derived' = derived \cup {KeyOf(kq, p)}
  /\ UNCHANGED <<redisUp, cache, reqVars, populated, kq>>

NextKey == DeriveKey

SpecKey == InitKey /\ [][NextKey]_vars

\* ----------------------------------------------------------------- claims

Done(r) == pc[r] = "done"

\* The request's query string deserialized into SearchParams.
Parsed(r) == pc[r] # "idle" /\ page_param[r] # InvalidPage

\* The request's query is missing or blank.
EmptyQuery(r) ==
  Parsed(r) /\ (~IsSome(rawq[r]) \/ trim_is_empty(Query(r)))

NonEmptyQuery(r) == Parsed(r) /\ ~EmptyQuery(r)

Did(r, op) == \E i \in 1..Len(calls[r]) : calls[r][i].op = op

DidOk(r, op) == \E i \in 1..Len(calls[r]) : calls[r][i].op = op /\ calls[r][i].ok

DidFail(r, op) == \E i \in 1..Len(calls[r]) : calls[r][i].op = op /\ ~calls[r][i].ok

\* The Ok arm of the match on the cached text ran.
HitPathRan(r) == Did(r, "from_str")

\* The Err(_) arm of the match on the cached text ran.
MissPathRan(r) == Did(r, "select")

Status(r) == IF IsSome(response[r]) THEN Unwrap(response[r]).status ELSE "none"

Succeeded(r) == Done(r) /\ Status(r) = "200"

MalformedCookie(r) == IsSome(cookie[r]) /\ ~CookieDecodes(Unwrap(cookie[r]))

\* The read of the cache found it warm for the request: an earlier request
\* had written the entry under the request's key (as every request with the
\* same q and page does), the entry was still stored and the store answered.
WarmRead(r) ==
  \E i \in 1..Len(calls[r]) :
     calls[r][i].op = "get" /\ calls[r][i].warm /\ calls[r][i].up

\* The declared pages that stand for the first page.
FirstPages == {None, Some(0), Some(1)}

\* C1: for every query, the requests with no page, with page=0 and with
\* page=1 derive the same cache key.
C1_FirstPageKeysAgree ==
  \A d1 \in derived, d2 \in derived :
     (d1[1] \in FirstPages /\ d2[1] \in FirstPages) => d1[3] = d2[3]

\* C2: with a warm cache (an earlier request with the same query and page
\* completed the miss path and wrote the key, and the store still holds and
\* returns the entry) a request is answered without any aggregator call.
C2_WarmCacheNoAggregator ==
  \A r \in Reqs : WarmRead(r) => ~Did(r, "aggregate") /\ ~MissPathRan(r)

C2_Witness ==
  \E r \in Reqs : WarmRead(r) /\ Succeeded(r) /\ HitPathRan(r)

\* C3: for every request with a non-empty query exactly one of the hit path
\* and the miss path executes, never both and never neither.
C3_ExactlyOnePath ==
  \A r \in Reqs :
     (Done(r) /\ NonEmptyQuery(r)) => (HitPathRan(r) # MissPathRan(r))

\* C4: on the miss path the cache write for the request's key comes before
\* rendering, and no request on the miss path succeeds without that write
\* having succeeded.
C4_WriteBeforeRender ==
  \A r \in Reqs :
     MissPathRan(r) =>
       /\ \A j \in 1..Len(calls[r]) :
             calls[r][j].op = "render" =>
               \E i \in 1..(j - 1) :
                  /\ calls[r][i].op = "set"
                  /\ calls[r][i].ok
                  /\ calls[r][i].key = page_url[r]
       /\ Succeeded(r) => DidOk(r, "set")
       /\ pc[r] = "render" => DidOk(r, "set")

C4_Witness ==
  \E r \in Reqs : MissPathRan(r) /\ Succeeded(r) /\ DidOk(r, "set")

\* C5: a request whose query is missing or blank ends in a redirect to "/",
\* whatever the availability of the cache, with no read or write of the cache
\* and no aggregator call.  (The claim also excludes the opening of the
\* connection, which the handler does for every request.)
C5_EmptyQueryRedirects ==
  \A r \in Reqs :
     (Done(r) /\ EmptyQuery(r)) =>
        /\ response[r] = Some(Redirect)
        /\ ~Did(r, "get") /\ ~Did(r, "set") /\ ~Did(r, "aggregate")

\* C6 as claimed: a request with a non-empty query and a malformed cookie
\* always ends in failure.
C6_MalformedCookieAlwaysFails ==
  \A r \in Reqs :
     (Done(r) /\ NonEmptyQuery(r) /\ MalformedCookie(r)) => Status(r) = "error"

\* C6, amended: a request with a non-empty query and a malformed cookie never
\* reaches the aggregator and never gets the default engines; when it takes
\* the miss path it ends in failure at the cookie.  (On a cache hit the cookie
\* is not decoded.)
C6_MalformedCookieFailsOnMiss ==
  \A r \in Reqs :
     (NonEmptyQuery(r) /\ MalformedCookie(r)) =>
        /\ ~Did(r, "aggregate")
        /\ ~DidOk(r, "select")
        /\ MissPathRan(r) => response[r] = Some(Failed("cookie"))

C6_Witness ==
  \E r \in Reqs :
     /\ NonEmptyQuery(r) /\ MalformedCookie(r) /\ MissPathRan(r)
     /\ response[r] = Some(Failed("cookie"))

\* C7: the engine list passed to the aggregator is never empty.
C7_EnginesNeverEmpty ==
  \A r \in Reqs : \A i \in 1..Len(calls[r]) :
     calls[r][i].op = "aggregate" => calls[r][i].engines # <<>>

\* C8: on every aggregator call the engine list is the configured default
\* list when the request has no cookie, and the `engines` member of the
\* cookie when it has one.
C8_EnginesVerbatim ==
  \A r \in Reqs : \A i \in 1..Len(calls[r]) :
     calls[r][i].op = "aggregate" =>
        IF IsSome(cookie[r])
        THEN \E m \in 1..Len(Unwrap(cookie[r]).members) :
                /\ Unwrap(cookie[r]).members[m][1] = "engines"
                /\ Unwrap(cookie[r]).members[m][3] = calls[r][i].engines
        ELSE calls[r][i].engines = <<"duckduckgo", "searx">>

C8_Witness ==
  \E r \in Reqs :
     /\ IsSome(cookie[r])
     /\ \E i \in 1..Len(calls[r]) :
           calls[r][i].op = "aggregate" /\ calls[r][i].engines = <<"searx">>

\* C9: for a request with a non-empty query, a cache that gives no entry,
\* be it not found or unreachable, never fails the request: the request
\* proceeds down the miss path.
C9_CacheFailureNeverFatal ==
  \A r \in Reqs :
     (Done(r) /\ NonEmptyQuery(r) /\ ~DidOk(r, "get")) =>
        /\ MissPathRan(r)
        /\ Unwrap(response[r]).error \notin {"redis-connect", "redis-get"}

\* C10: when the cache write fails after a successful aggregation the request
\* ends in failure, and nothing is rendered for it.
C10_SetFailureFails ==
  \A r \in Reqs :
     DidFail(r, "set") =>
        /\ Done(r)
        /\ response[r] = Some(Failed("redis-set"))
        /\ ~Did(r, "render")

C10_Witness ==
  \E r \in Reqs : DidOk(r, "aggregate") /\ DidFail(r, "set") /\ Status(r) = "error"

\* The request wrote the cache: its history holds a successful set.
Wrote(r) == DidOk(r, "set")

\* The request took the miss arm and ended in failure.
FailedOnMiss(r) == Done(r) /\ MissPathRan(r) /\ Status(r) = "error"

\* C11 as stated: a request that takes the miss path and ends in failure,
\* at whatever stage, has left the cache as it found it: it made no write.
C11_FailedMissDiscardsAll ==
  \A r \in Reqs : FailedOnMiss(r) => ~Wrote(r)

\* C11 amended: a request that takes the miss path and fails at cookie
\* decoding, at aggregation or at the cache write has written nothing; one
\* that fails at rendering has already written its entry, which stays.
C11_FailedMissDiscardsBeforeRender ==
  \A r \in Reqs :
     FailedOnMiss(r) => (Wrote(r) <=> response[r] = Some(Failed("render")))

\* A request failed at rendering on the miss path and the entry it wrote is
\* in the cache.
C11_Witness ==
  \E r \in Reqs :
     /\ FailedOnMiss(r)
     /\ response[r] = Some(Failed("render"))
     /\ \E i \in 1..Len(calls[r]) :
          /\ calls[r][i].op = "set"
          /\ calls[r][i].ok
          /\ Stored(calls[r][i].key) # {}

\* How many times the request attached the style and computed the empty
\* flag (lines 156-162).
EnrichCount(r) ==
  Cardinality({i \in 1..Len(calls[r]) : calls[r][i].op = "enrich"})

\* C12 as stated: every finished request that took the miss path enriched
\* its results exactly once, and a request that took the hit path never did.
C12_EnrichedOncePerMiss ==
  \A r \in Reqs :
     /\ Done(r) /\ MissPathRan(r) => EnrichCount(r) = 1
     /\ HitPathRan(r) => EnrichCount(r) = 0

\* C12 amended: a request enriches at most once; it does so exactly when
\* its aggregation succeeded, which happens on the miss path only, and a
\* request that took the hit path never enriches.
C12_EnrichedOncePerAggregation ==
  \A r \in Reqs :
     /\ EnrichCount(r) <= 1
     /\ EnrichCount(r) = 1 <=> DidOk(r, "aggregate")
     /\ EnrichCount(r) = 1 => MissPathRan(r)
     /\ HitPathRan(r) => EnrichCount(r) = 0

\* A request finished on the miss path having enriched its results once.
C12_Witness ==
  \E r \in Reqs : Done(r) /\ MissPathRan(r) /\ EnrichCount(r) = 1

\* The request read the cache, the store answered and held nothing under
\* the request's key.
MissedCold(r) ==
  \E i \in 1..Len(calls[r]) :
     calls[r][i].op = "get" /\ ~calls[r][i].ok /\ calls[r][i].up

\* The request is between its cache write and its render.
JustWrote(r) == pc[r] = "render" /\ Wrote(r)

\* C13: no step of a request is held back by another request working on the
\* same key, and every successful write leaves under its key exactly the
\* text the writer serialized, whatever an earlier writer had stored there:
\* the entry is the value of the last write.
C13_LastWriteWins ==
  [][\A r \in Reqs :
       pc[r] = "set" /\ pc'[r] = "render"
         => {e[2] : e \in {x \in cache' : x[1] = page_url[r]}}
              = {to_string(Unwrap(results_json[r]))}]_vars

\* Two requests in flight for the same key both found the answering store
\* empty, both aggregated, with different results, and both wrote; the
\* cache holds the results of one of them.
C13_Witness ==
  \E r1, r2 \in Reqs :
     /\ r1 # r2
     /\ JustWrote(r1) /\ JustWrote(r2)
     /\ page_url[r1] = page_url[r2]
     /\ MissedCold(r1) /\ MissedCold(r2)
     /\ DidOk(r1, "aggregate") /\ DidOk(r2, "aggregate")
     /\ results_json[r1] # results_json[r2]
     /\ Stored(page_url[r1]) = {to_string(Unwrap(results_json[r2]))}

\* The request has derived its page and its cache key (lines 104-132).
Keyed(r) == pc[r] \in {"get", "miss", "set", "render"} \/ (Done(r) /\ Did(r, "get"))

\* `s` ends with `t`.
EndsWith(s, t) ==
  Len(s) >= Len(t) /\ SubSeq(s, Len(s) - Len(t) + 1, Len(s)) = t

\* C14: the effective page is 1 when the page parameter is absent or at
\* most 1 and the declared page when it is greater than 1; the page handed
\* to the aggregator is this page, and the cache key, under which the cache
\* is read and the aggregation is made, ends with `&page=` and this page.
C14_EffectivePage ==
  \A r \in Reqs :
     Keyed(r) =>
       LET declared == page_param[r]
           eff == IF declared = None \/ Unwrap(declared) <= 1 THEN 1 ELSE Unwrap(declared)
       IN  /\ page[r] = eff
           /\ EndsWith(page_url[r], PageSuffix(eff))
           /\ \A i \in 1..Len(calls[r]) :
                calls[r][i].op \in {"get", "aggregate", "set"}
                  => calls[r][i].key = page_url[r]
           /\ \A i \in 1..Len(calls[r]) :
                calls[r][i].op = "aggregate" => calls[r][i].page = eff

\* A request that declared a page greater than 1 has aggregated and written
\* the cache.
C14_Witness ==
  \E r \in Reqs :
     /\ Keyed(r)
     /\ IsSome(page_param[r]) /\ Unwrap(page_param[r]) > 1
     /\ DidOk(r, "aggregate")
     /\ Wrote(r)

\* The request's read of the cache found an entry that a request had written
\* and that no write or expiry had touched since.
PopulatedRead(r, i) ==
  calls[r][i].op = "get" /\ calls[r][i].ok /\ IsSome(calls[r][i].wrote)

C16_KeyIdentifiesQueryAndPage ==
  \A d \in derived :
     \A raw \in RawQueries, p \in Pages :
        LET e == KeyOf(raw, p)
        IN  /\ ~trim_is_empty(e[4])
            /\ (e[4] # d[4] \/ e[2] # d[2])
            => e[3] # d[3]

\* The request is past its arrival and has not returned.
InFlight(r) == pc[r] \in {"get", "miss", "set", "render"}

\* The calls the handler makes on its collaborators.
Stages == {"connect", "get", "from_str", "select", "aggregate", "enrich", "set", "render"}

OpCount(r, op) ==
  Cardinality({i \in 1..Len(calls[r]) : calls[r][i].op = op})

\* C17: when every collaborator call returns, every request in flight
\* eventually returns; a request that has returned has exactly one outcome
\* (redirect, success or failure) and one that has not has none; no stage is
\* made twice; and a request that has returned makes no further call, its
\* outcome staying as it is until the worker takes the next request.
C17_TerminatesOnce ==
  /\ \A r \in Reqs : InFlight(r) ~> Done(r)
  /\ [](\A r \in Reqs :
         /\ Done(r) => IsSome(response[r]) /\ Status(r) \in {"302", "200", "error"}
         /\ InFlight(r) => response[r] = None
         /\ \A op \in Stages : OpCount(r, op) <= 1)
  /\ [][\A r \in Reqs :
         Done(r) =>
           \/ pc'[r] = "done" /\ calls'[r] = calls[r] /\ response'[r] = response[r]
           \/ pc'[r] = "idle" /\ calls'[r] = <<>> /\ response'[r] = None]_vars

\* A request returned a page after all seven calls of the miss path.
C17_Witness ==
  \E r \in Reqs : Succeeded(r) /\ Len(calls[r]) = 7 /\ OpCount(r, "render") = 1

\* The request read, from the answering store, a text that is no
\* SearchResults.
ReadUndecodable(r) ==
  \E i \in 1..Len(calls[r]) :
     /\ calls[r][i].op = "get"
     /\ calls[r][i].ok
     /\ ~SearchResultsDecode(Unwrap(calls[r][i].text))

\* C18: a request whose cache read returns a text that cannot be
\* deserialized ends in failure at the deserialization, whichever request
\* it is and however often the entry has been read: it does not take the
\* miss path, invokes neither the engine selection nor the aggregator and
\* writes nothing, and the step in which it fails leaves the whole cache,
\* the undecodable entry included, as it was.
C18_UndecodableEntryFails ==
  /\ [](\A r \in Reqs :
         ReadUndecodable(r) =>
           /\ Done(r)
           /\ response[r] = Some(Failed("deserialize"))
           /\ DidFail(r, "from_str")
           /\ ~MissPathRan(r) /\ ~Did(r, "aggregate") /\ ~Did(r, "set"))
  /\ [][\A r \in Reqs :
         pc[r] = "get" /\ ReadUndecodable(r)' => cache' = cache]_vars

\* A request failed on an undecodable entry and the entry is still stored
\* under its key.
C18_Witness ==
  \E r \in Reqs :
     /\ ReadUndecodable(r)
     /\ response[r] = Some(Failed("deserialize"))
     /\ Stored(page_url[r]) = {Garbage}

\* The entries stored under other keys than `key`.
OtherEntries(store, key) == {e \in store : e[1] # key}

\* C19: a step of a request leaves the store's availability alone and
\* leaves the cache as it is, unless it is the write of a request on the
\* miss path whose aggregation succeeded and which has not written before,
\* and then only the entry under the request's own key changes; a request
\* writes at most once, and one on the hit path or the redirect path makes
\* no cache write at all.
C19_OnlyOwnEntryWritten ==
  /\ [][\A r \in Reqs :
         pc'[r] # pc[r] =>
           /\ redisUp' = redisUp
           /\ \/ cache' = cache
              \/ /\ pc[r] = "set" /\ pc'[r] = "render"
                 /\ MissPathRan(r) /\ DidOk(r, "aggregate")
                 /\ ~Did(r, "set")
                 /\ OtherEntries(cache', page_url[r]) = OtherEntries(cache, page_url[r])]_vars
  /\ [](\A r \in Reqs :
         /\ OpCount(r, "set") <= 1
         /\ Did(r, "set") => MissPathRan(r) /\ DidOk(r, "aggregate")
         /\ HitPathRan(r) \/ EmptyQuery(r) => ~Did(r, "set"))

\* A request has written its entry while entries under other keys are
\* stored.
C19_Witness ==
  \E r \in Reqs :
     JustWrote(r) /\ OtherEntries(cache, page_url[r]) # {} /\ Stored(page_url[r]) # {}

\* The responses the Ok arm can return for a text read from the cache: they
\* are made from the text and the renderer's answer alone.
HitOutcomes(text) ==
  IF SearchResultsDecode(text)
  THEN {Some(OkResponse(RenderPage(from_str(text)))), Some(Failed("render"))}
  ELSE {Some(Failed("deserialize"))}

\* C20: the response to a request whose cache read found a text is one of
\* the responses made from that text alone, whatever cookie the request
\* carries (none, one naming engines, one that does not decode): the cookie
\* is never decoded and no engine selected on the hit path.
C20_HitIgnoresCookie ==
  \A r \in Reqs :
     \A i \in 1..Len(calls[r]) :
        calls[r][i].op = "get" /\ calls[r][i].ok =>
          /\ Done(r)
          /\ response[r] \in HitOutcomes(Unwrap(calls[r][i].text))
          /\ ~Did(r, "select")

\* A request carrying a cookie that does not decode was served the page
\* made from the cached text.
C20_Witness ==
  \E r \in Reqs :
     /\ MalformedCookie(r)
     /\ \E i \in 1..Len(calls[r]) :
          /\ calls[r][i].op = "get" /\ calls[r][i].ok
          /\ SearchResultsDecode(Unwrap(calls[r][i].text))
          /\ response[r] = Some(OkResponse(RenderPage(from_str(Unwrap(calls[r][i].text)))))

====
